---- MODULE Spec2Model ----
(***************************************************************************)
(* Model of aiomcache.pool.MemcachePool (src/aiomcache/pool.py).           *)
(*                                                                         *)
(* The pool runs on one asyncio event loop: a task runs atomically from    *)
(* one suspension point to the next.  The suspension points are the        *)
(* connector's connect (pool.py:86) and asyncio.Queue.get on an empty      *)
(* queue (pool.py:63).  Every action below is one such atomic run.         *)
(***************************************************************************)
EXTENDS Integers, Sequences, FiniteSets, TLC

\* ---------------------------------------------------------------- bounds
NumTasks == 3
MaxConn == 3
MaxSize == 2

Tasks == 1..NumTasks
Conns == 1..MaxConn
None == 0

VARIABLES
    minsize,    \* self._minsize
    maxsize,    \* self._maxsize
    available,  \* self._pool: the asyncio.Queue of idle connections
    inUse,      \* self._in_use
    getters,    \* asyncio.Queue._getters: tasks suspended in _pool.get()
    woken,      \* suspended getters whose future has been resolved
    pc,         \* where each caller task is
    held,       \* the Connection acquire returned to each task (None if none)
    nextId,     \* identity of the next Connection the connector produces
    stale,      \* live connections whose reader is at_eof()/has an exception
    closedBy,   \* which pool code path destroyed a connection ("none" if live)
    issued,     \* connections some acquire has returned
    released    \* connections some release has put back in the queue

vars == <<minsize, maxsize, available, inUse, getters, woken, pc, held,
          nextId, stale, closedBy, issued, released>>

\* ---------------------------------------------------------------- helpers
Range(s) == {s[i] : i \in 1..Len(s)}

Min(a, b) == IF a < b THEN a ELSE b

\* size(): self._pool.qsize() + len(self._in_use)
SizeOf(av, iu) == Len(av) + Cardinality(iu)

size == SizeOf(available, inUse)

\* a warm-up that only fills an empty pool
WarmCondEmptyOnly(sz) == sz = 0

\* acquire's warm-up loop condition
WarmCond(sz) == sz = 0 \/ sz < minsize

\* a creation path that connects without looking at size()
CanCreateAlways(sz) == TRUE

\* _create_new_conn: the check before the connector is invoked
CanCreate(sz) == sz < maxsize

\* a creation path that trusts the check made before the connect
RecheckSkipped(sz) == TRUE

\* _create_new_conn: the check after the connector has resumed
Recheck(sz) == sz < maxsize

\* reader.at_eof() or reader.exception() is not None;
\* _do_close feeds eof, so a destroyed connection reads as stale too
AtEofOrException(c, cb) == c \in stale \/ cb[c] # "none"

\* an acquire that hands out whatever it took
AcquireSeesNothing(c, cb) == FALSE

\* the liveness check of acquire
AcquireSeesStale(c, cb) == AtEofOrException(c, cb)

\* a release that puts back whatever it is given
ReleaseSeesNothing(c, cb) == FALSE

\* a release that closes whatever it is given
ReleaseSeesAllStale(c, cb) == TRUE

\* the liveness check of release
ReleaseSeesStale(c, cb) == AtEofOrException(c, cb)

\* a close that leaves the streams open
DoCloseForgotten(cb, c, who) == cb

\* _do_close(conn), remembering the caller
DoClose(cb, c, who) == [cb EXCEPT ![c] = who]

\* a queue whose get leaves the item where it was
GetNowaitPeek(av) == av

\* asyncio.Queue.get_nowait: the queue without its head
GetNowait(av) == Tail(av)

\* a warm-up that keeps the new connection to itself
PutNowaitDropped(av, c) == av

\* a queue that puts the item in front
PutNowaitFront(av, c) == <<c>> \o av

\* asyncio.Queue.put_nowait: the item goes to the tail
PutNowait(av, c) == Append(av, c)

\* asyncio.Queue._wakeup_next(self._getters): the first getter is popped
WakeGetters(gt) == IF gt = <<>> THEN gt ELSE Tail(gt)

\* a wakeup that pops the getter without resolving its future
WakeNobody(gt, wk) == wk

\* ... and its future is resolved
WakeWoken(gt, wk) == IF gt = <<>> THEN wk ELSE wk \cup {Head(gt)}

\* The selection loop of acquire, run from a queue state up to the next
\* suspension point or to the accepted connection.
RECURSIVE Select(_, _)
Select(av, cb) ==
    IF av = <<>>
    THEN [av |-> av, cb |-> cb, res |-> "wait", conn |-> None]
    ELSE LET c == Head(av)
             rest == GetNowait(av)
         IN  IF AcquireSeesStale(c, cb)
             THEN LET cb2 == DoClose(cb, c, "acquire")
                  IN  IF CanCreate(SizeOf(rest, inUse))
                      THEN [av |-> rest, cb |-> cb2, res |-> "connect",
                            conn |-> None]
                      ELSE Select(rest, cb2)
             ELSE [av |-> rest, cb |-> cb, res |-> "got", conn |-> c]

\* a clear that tests the queue once instead of looping
ClearQueueOnce(av) == IF av = <<>> THEN av ELSE Tail(av)

\* clear(): every idle connection is taken and closed
ClearQueue(av) == <<>>

ClearClosed(av, cb) ==
    [c \in Conns |-> IF c \in Range(av) THEN "clear" ELSE cb[c]]

\* the peer-made stale marks of the connections that are still open
StillOpen(st, cb) == {c \in st : cb[c] = "none"}

\* ---------------------------------------------------------------- Init
Init ==
    /\ minsize \in 0..MaxSize
    /\ maxsize \in 0..MaxSize
    /\ available = <<>>
    /\ inUse = {}
    /\ getters = <<>>
    /\ woken = {}
    /\ pc = [t \in Tasks |-> "idle"]
    /\ held = [t \in Tasks |-> None]
    /\ nextId = 1
    /\ stale = {}
    /\ closedBy = [c \in Conns |-> "none"]
    /\ issued = {}
    /\ released = {}

\* ---------------------------------------------------------------- acquire
\* The selection phase of task t from the given queue state.
SelectionPhase(t, av, cb, gt, wk, nid) ==
    LET r == Select(av, cb)
    IN  /\ available' = r.av
        /\ closedBy' = r.cb
        /\ stale' = StillOpen(stale, r.cb)
        /\ woken' = wk
        /\ nextId' = nid
        /\ IF r.res = "wait"
           THEN /\ getters' = Append(gt, t)
                /\ pc' = [pc EXCEPT ![t] = "wait"]
                /\ UNCHANGED <<inUse, held, issued>>
           ELSE IF r.res = "connect"
           THEN /\ getters' = gt
                /\ pc' = [pc EXCEPT ![t] = "repl_connect"]
                /\ UNCHANGED <<inUse, held, issued>>
           ELSE /\ getters' = gt
                /\ pc' = [pc EXCEPT ![t] = "held"]
                /\ inUse' = inUse \cup {r.conn}
                /\ held' = [held EXCEPT ![t] = r.conn]
                /\ issued' = issued \cup {r.conn}

\* The warm-up loop of task t from the given queue state.
WarmLoop(t, av, cb, gt, wk, nid) ==
    IF WarmCond(SizeOf(av, inUse)) /\ CanCreate(SizeOf(av, inUse))
    THEN /\ available' = av
         /\ closedBy' = cb
         /\ stale' = stale
         /\ getters' = gt
         /\ woken' = wk
         /\ nextId' = nid
         /\ pc' = [pc EXCEPT ![t] = "warm_connect"]
         /\ UNCHANGED <<inUse, held, issued>>
    ELSE SelectionPhase(t, av, cb, gt, wk, nid)

\* A task calls acquire().
AcquireCall(t) ==
    /\ pc[t] = "idle"
    /\ WarmLoop(t, available, closedBy, getters, woken, nextId)
    /\ UNCHANGED <<minsize, maxsize, released>>

\* The connector invoked by the warm-up loop returns a transport.
WarmConnectOk(t) ==
    /\ pc[t] = "warm_connect"
    /\ nextId <= MaxConn
    /\ IF Recheck(size)
       THEN WarmLoop(t, PutNowait(available, nextId), closedBy,
                     WakeGetters(getters), WakeWoken(getters, woken),
                     nextId + 1)
       ELSE SelectionPhase(t, available, DoClose(closedBy, nextId, "surplus"),
                           getters, woken, nextId + 1)
    /\ UNCHANGED <<minsize, maxsize, released>>

\* The connector invoked to replace a stale connection returns a transport.
ReplConnectOk(t) ==
    /\ pc[t] = "repl_connect"
    /\ nextId <= MaxConn
    /\ IF Recheck(size)
       THEN /\ inUse' = inUse \cup {nextId}
            /\ held' = [held EXCEPT ![t] = nextId]
            /\ issued' = issued \cup {nextId}
            /\ pc' = [pc EXCEPT ![t] = "held"]
            /\ nextId' = nextId + 1
            /\ UNCHANGED <<available, closedBy, stale, getters, woken>>
       ELSE SelectionPhase(t, available, DoClose(closedBy, nextId, "surplus"),
                           getters, woken, nextId + 1)
    /\ UNCHANGED <<minsize, maxsize, released>>

\* a creation path that swallows the connector's exception and reports
\* "no connection": the caller goes on to wait on the queue
ConnectFailSwallowed(t) ==
    /\ pc[t] \in {"warm_connect", "repl_connect"}
    /\ pc' = [pc EXCEPT ![t] = "wait"]
    /\ getters' = Append(getters, t)
    /\ UNCHANGED <<minsize, maxsize, available, inUse, woken, held,
                   nextId, stale, closedBy, issued, released>>

\* The connector raises: the exception leaves acquire.
ConnectFail(t) ==
    /\ pc[t] \in {"warm_connect", "repl_connect"}
    /\ pc' = [pc EXCEPT ![t] = "raised"]
    /\ UNCHANGED <<minsize, maxsize, available, inUse, getters, woken, held,
                   nextId, stale, closedBy, issued, released>>

\* The caller has seen the exception; it may call the pool again.
Raised(t) ==
    /\ pc[t] = "raised"
    /\ pc' = [pc EXCEPT ![t] = "idle"]
    /\ UNCHANGED <<minsize, maxsize, available, inUse, getters, woken, held,
                   nextId, stale, closedBy, issued, released>>

\* A getter whose future was resolved runs again: Queue.get re-tests
\* empty() and either suspends again or takes the head.
Resume(t) ==
    /\ pc[t] = "wait"
    /\ t \in woken
    /\ SelectionPhase(t, available, closedBy, getters, woken \ {t}, nextId)
    /\ UNCHANGED <<minsize, maxsize, released>>

\* ---------------------------------------------------------------- release
Release(t) ==
    /\ pc[t] = "held"
    /\ LET c == held[t]
       IN  /\ inUse' = inUse \ {c}
           /\ IF ReleaseSeesStale(c, closedBy)
              THEN /\ closedBy' = DoClose(closedBy, c, "release")
                   /\ UNCHANGED <<available, getters, woken, released>>
              ELSE /\ available' = PutNowait(available, c)
                   /\ getters' = WakeGetters(getters)
                   /\ woken' = WakeWoken(getters, woken)
                   /\ released' = released \cup {c}
                   /\ UNCHANGED closedBy
    /\ stale' = StillOpen(stale, closedBy')
    /\ held' = [held EXCEPT ![t] = None]
    /\ pc' = [pc EXCEPT ![t] = "idle"]
    /\ UNCHANGED <<minsize, maxsize, nextId, issued>>

\* ---------------------------------------------------------------- clear
Clear ==
    /\ available' = ClearQueue(available)
    /\ closedBy' = ClearClosed(available, closedBy)
    /\ stale' = StillOpen(stale, closedBy')
    /\ UNCHANGED <<minsize, maxsize, inUse, getters, woken, pc, held, nextId,
                   issued, released>>

\* ---------------------------------------------------------------- peer
\* The peer closes a live connection or its read side records an error.
GoStale(c) ==
    /\ c \in Range(available) \cup inUse
    /\ c \notin stale
    /\ stale' = stale \cup {c}
    /\ UNCHANGED <<minsize, maxsize, available, inUse, getters, woken, pc,
                   held, nextId, closedBy, issued, released>>

\* ---------------------------------------------------------------- Spec
Next ==
    \/ \E t \in Tasks : AcquireCall(t)
    \/ \E t \in Tasks : WarmConnectOk(t)
    \/ \E t \in Tasks : ReplConnectOk(t)
    \/ \E t \in Tasks : ConnectFail(t)
    \/ \E t \in Tasks : Raised(t)
    \/ \E t \in Tasks : Resume(t)
    \/ \E t \in Tasks : Release(t)
    \/ Clear
    \/ \E c \in Conns : GoStale(c)

Spec == Init /\ [][Next]_vars

\* Only acquire calls run, against a connector that always succeeds and
\* peers that keep their connections open.
WarmNext ==
    \/ \E t \in Tasks : AcquireCall(t)
    \/ \E t \in Tasks : WarmConnectOk(t)
    \/ \E t \in Tasks : Resume(t)

WarmSpec == Init /\ [][WarmNext]_vars

\* The first acquire runs alone on the empty pool, against a connector that
\* always succeeds; once it has returned (or, with maxsize = 0, is waiting)
\* every operation may run.
Pristine == nextId = 1 /\ issued = {} /\ \A u \in Tasks : pc[u] = "idle"

SoloRunning(t) ==
    /\ issued = {}
    /\ pc[t] = "warm_connect"
    /\ \A u \in Tasks \ {t} : pc[u] = "idle"

SoloDone == issued # {} \/ \E t \in Tasks : pc[t] = "wait"

SoloCall(t) == Pristine /\ AcquireCall(t)

SoloConnectOk(t) == SoloRunning(t) /\ WarmConnectOk(t)

SoloNext ==
    \/ \E t \in Tasks : SoloCall(t)
    \/ \E t \in Tasks : SoloConnectOk(t)
    \/ SoloDone /\ Next

SoloSpec == Init /\ [][SoloNext]_vars

\* The connector always succeeds and clear is not called; peers may close
\* their connections.
HealthyNext ==
    \/ \E t \in Tasks : AcquireCall(t)
    \/ \E t \in Tasks : WarmConnectOk(t)
    \/ \E t \in Tasks : ReplConnectOk(t)
    \/ \E t \in Tasks : Resume(t)
    \/ \E t \in Tasks : Release(t)
    \/ \E c \in Conns : GoStale(c)

HealthySpec == Init /\ [][HealthyNext]_vars

\* ---------------------------------------------------------------- cancel
\* The caller abandons its acquire (the task is cancelled) while the
\* connector is connecting: CancelledError leaves _create_new_conn and
\* acquire, as a connector failure does.
CancelConnect(t) ==
    /\ pc[t] \in {"warm_connect", "repl_connect"}
    /\ pc' = [pc EXCEPT ![t] = "cancelled"]
    /\ UNCHANGED <<minsize, maxsize, available, inUse, getters, woken, held,
                   nextId, stale, closedBy, issued, released>>

\* asyncio.Queue.get, on cancellation of a getter whose future was already
\* resolved: "if not self.empty() and not getter.cancelled()" the wakeup is
\* passed to the next getter
PassWake(av) == av # <<>>

\* The caller abandons its acquire while it is suspended in _pool.get() and
\* nothing has woken it: the getter is cancelled and leaves the queue's list.
CancelGetter(t) ==
    /\ pc[t] = "wait"
    /\ t \notin woken
    /\ getters' = SelectSeq(getters, LAMBDA u : u # t)
    /\ pc' = [pc EXCEPT ![t] = "cancelled"]
    /\ UNCHANGED <<minsize, maxsize, available, inUse, woken, held,
                   nextId, stale, closedBy, issued, released>>

\* The caller abandons its acquire after a put has resolved its getter and
\* before it ran again.
CancelWoken(t) ==
    /\ pc[t] = "wait"
    /\ t \in woken
    /\ IF PassWake(available)
       THEN /\ getters' = WakeGetters(getters)
            /\ woken' = WakeWoken(getters, woken \ {t})
       ELSE /\ getters' = getters
            /\ woken' = woken \ {t}
    /\ pc' = [pc EXCEPT ![t] = "cancelled"]
    /\ UNCHANGED <<minsize, maxsize, available, inUse, held,
                   nextId, stale, closedBy, issued, released>>

\* The caller has seen the CancelledError; it may call the pool again.
Abandoned(t) ==
    /\ pc[t] = "cancelled"
    /\ pc' = [pc EXCEPT ![t] = "idle"]
    /\ UNCHANGED <<minsize, maxsize, available, inUse, getters, woken, held,
                   nextId, stale, closedBy, issued, released>>

CancelNext ==
    \/ Next
    \/ \E t \in Tasks : CancelConnect(t)
    \/ \E t \in Tasks : CancelGetter(t)
    \/ \E t \in Tasks : CancelWoken(t)
    \/ \E t \in Tasks : Abandoned(t)

CancelSpec == Init /\ [][CancelNext]_vars

\* ---------------------------------------------------------------- misuse
\* a release that uses set.discard
RemoveNeverRaises(iu, c) == FALSE

\* self._in_use.remove(conn) raises KeyError when conn is not in the set
RemoveRaises(iu, c) == c \notin iu

\* A caller that holds nothing calls release with a Connection that is not
\* checked out: one already released or destroyed, or one the pool never had.
ReleaseNotHeld(t, c) ==
    /\ pc[t] = "idle"
    /\ c \notin inUse
    /\ IF RemoveRaises(inUse, c)
       THEN /\ pc' = [pc EXCEPT ![t] = "keyerror"]
            /\ UNCHANGED <<available, inUse, getters, woken, closedBy,
                           released>>
       ELSE /\ pc' = [pc EXCEPT ![t] = "released"]
            /\ inUse' = inUse \ {c}
            /\ IF ReleaseSeesStale(c, closedBy)
               THEN /\ closedBy' = DoClose(closedBy, c, "release")
                    /\ UNCHANGED <<available, getters, woken, released>>
               ELSE /\ available' = PutNowait(available, c)
                    /\ getters' = WakeGetters(getters)
                    /\ woken' = WakeWoken(getters, woken)
                    /\ released' = released \cup {c}
                    /\ UNCHANGED closedBy
    /\ stale' = StillOpen(stale, closedBy')
    /\ UNCHANGED <<minsize, maxsize, held, nextId, issued>>

\* The caller has seen the KeyError; it may call the pool again.
KeyErrorSeen(t) ==
    /\ pc[t] = "keyerror"
    /\ pc' = [pc EXCEPT ![t] = "idle"]
    /\ UNCHANGED <<minsize, maxsize, available, inUse, getters, woken, held,
                   nextId, stale, closedBy, issued, released>>

MisuseNext ==
    \/ Next
    \/ \E t \in Tasks : \E c \in Conns : ReleaseNotHeld(t, c)
    \/ \E t \in Tasks : KeyErrorSeen(t)

MisuseSpec == Init /\ [][MisuseNext]_vars

\* ---------------------------------------------------------------- claims

\* C1: in every state between two suspension points, size() = |available| +
\* |inUse| is at most maxSize, whatever the interleaving of acquire, release
\* and clear, also when several creations passed the same check of size().
C1_BoundInvariant == size <= maxsize

\* Two creations raced: one filled the last slot, the other was discarded.
C1_Witness ==
    /\ size = maxsize
    /\ maxsize > 0
    /\ \E c \in Conns : closedBy[c] = "surplus"

\* C2: no two callers hold the same Connection at the same time: the
\* connections held by the tasks are pairwise distinct, they are exactly
\* inUse, and none of them is idle in available.
C2_NoDoubleIssue ==
    /\ \A t1, t2 \in Tasks :
          (t1 # t2 /\ held[t1] # None) => held[t1] # held[t2]
    /\ inUse = {held[t] : t \in {u \in Tasks : held[u] # None}}
    /\ \A t \in Tasks : held[t] \notin Range(available)

\* Two callers hold connections at once, one of them handed out a second time.
C2_Witness ==
    /\ \E t1, t2 \in Tasks :
          t1 # t2 /\ held[t1] # None /\ held[t2] # None
    /\ inUse \cap released # {}

Connecting == {"warm_connect", "repl_connect"}

\* Task t calls acquire in this step.
Calls(t) == pc[t] = "idle" /\ pc'[t] # "idle"

\* Task t's acquire returns a Connection in this step.
Returns(t) == pc[t] # "held" /\ pc'[t] = "held"

\* Task t releases its Connection in this step.
Releases(t) == pc[t] = "held" /\ pc'[t] = "idle"

\* Task t's connect ends in this step without a transport.
ConnectorFails(t) ==
    pc[t] \in Connecting /\ pc'[t] # pc[t] /\ nextId' = nextId

\* The connect of task t's warm-up ends in this step with a transport.
WarmDelivers(t) ==
    /\ pc[t] = "warm_connect"
    /\ nextId' = nextId + 1
    /\ \A u \in Tasks \ {t} : pc'[u] = pc[u]
    /\ pc'[t] # pc[t] \/ nextId \in Range(available')

\* The connect of task t's stale replacement ends in this step with a
\* transport.
ReplDelivers(t) ==
    /\ pc[t] = "repl_connect"
    /\ nextId' = nextId + 1
    /\ \A u \in Tasks \ {t} : pc'[u] = pc[u]
    /\ pc'[t] # pc[t] \/ closedBy'[nextId] = "surplus"

\* C3: an acquire called while no connection is idle and size() < maxSize
\* invokes the connector (it is suspended in the connect after the call)
\* instead of waiting on the idle queue for a release.
C3_GrowthOnDemand ==
    [][\A t \in Tasks :
          (Calls(t) /\ available = <<>> /\ size < maxsize)
              => pc'[t] \in Connecting]_vars

\* C4: when the connector fails in the warm-up or while replacing a stale
\* connection, the failure reaches the caller of acquire, that acquire does
\* nothing more (no second connect), available and inUse are what they were,
\* and the pool is consistent: available and inUse disjoint, size() <= maxSize.
C4_ConnectorFailure ==
    [][\A t \in Tasks :
          /\ ConnectorFails(t) =>
                /\ pc'[t] = "raised"
                /\ available' = available
                /\ inUse' = inUse
                /\ closedBy' = closedBy
                /\ getters' = getters
                /\ Range(available') \cap inUse' = {}
                /\ size' <= maxsize
          /\ pc[t] = "raised" => pc'[t] \in {"raised", "idle"}]_vars

\* A replacement's connect has failed: the stale connection is destroyed,
\* the caller has the exception, other connections are still in the pool.
C4_Witness ==
    /\ \E t \in Tasks : pc[t] = "raised"
    /\ \E c \in Conns : closedBy[c] = "acquire"
    /\ \A t \in Tasks : pc[t] \notin Connecting
    /\ size > 0

\* C5: a stale Connection that an acquire takes from the idle queue is
\* destroyed in that step and is never returned; when the replacement's
\* connect delivers a transport, the acquire returns that fresh Connection
\* if size() < maxSize, and otherwise discards it and goes back to the idle
\* queue (waiting, or taking the next idle Connection).
C5_StalenessEviction ==
    [][/\ \A t \in Tasks :
            Returns(t) =>
                /\ held'[t] \notin stale
                /\ closedBy[held'[t]] = "none"
                /\ closedBy'[held'[t]] = "none"
       /\ \A c \in Range(available) \cap stale :
            c \notin Range(available') =>
                /\ closedBy'[c] \in {"acquire", "clear"}
                /\ c \notin inUse'
                /\ \A t \in Tasks : held'[t] # c
                /\ closedBy'[c] = "acquire" =>
                      \E t \in Tasks :
                          /\ pc'[t] = "repl_connect"
                          /\ pc[t] # "repl_connect" \/ nextId' # nextId
       /\ \A t \in Tasks :
            ReplDelivers(t) =>
                IF size < maxsize
                THEN /\ pc'[t] = "held"
                     /\ held'[t] = nextId
                     /\ available' = available
                ELSE /\ closedBy'[nextId] = "surplus"
                     /\ nextId \notin inUse'
                     /\ \/ pc'[t] = "wait" /\ available = <<>>
                        \/ pc'[t] = "held" /\ held'[t] = Head(available)
                        \/ pc'[t] = "repl_connect"
                              /\ closedBy'[Head(available)] = "acquire"]_vars

\* An acquire has destroyed a stale idle Connection and a caller holds a
\* Connection created after it that no release has ever put back.
C5_Witness ==
    \E c \in Conns :
        /\ closedBy[c] = "acquire"
        /\ \E t \in Tasks :
              held[t] > c /\ held[t] \notin released /\ pc[t] = "held"

\* C6: from an empty pool with minSize <= maxSize, a connector that always
\* succeeds and only acquire calls running, size() >= min(minSize, maxSize)
\* in the state in which any acquire returns.
C6_WarmupConvergence ==
    [][\A t \in Tasks :
          (Returns(t) /\ minsize <= maxsize)
              => size' >= Min(minsize, maxsize)]_vars

\* An acquire has returned from a pool warmed up to minSize = 2 while
\* another acquire's creation raced with it.
C6_Witness ==
    /\ minsize = 2
    /\ maxsize = 2
    /\ size = 2
    /\ \E t \in Tasks : pc[t] = "held"
    /\ \E c \in Conns : closedBy[c] = "surplus"

\* C7: release of a healthy checked-out Connection leaves size() as it
\* was, takes the Connection out of inUse and appends it to the tail of
\* available, closing nothing; the Connection is then idle and open, so a
\* later acquire can return it.
C7_ReleaseReturnsCapacity ==
    [][\A t \in Tasks :
          (Releases(t) /\ held[t] \notin stale) =>
              /\ held[t] \in inUse
              /\ size' = size
              /\ inUse' = inUse \ {held[t]}
              /\ available' = Append(available, held[t])
              /\ closedBy' = closedBy
              /\ closedBy[held[t]] = "none"]_vars

\* A caller holds a Connection that an earlier release had put back.
C7_Witness ==
    \E t \in Tasks : pc[t] = "held" /\ held[t] \in released

\* Some idle Connection is destroyed by clear in this step.
ClearCloses ==
    \E c \in Conns : closedBy[c] # "clear" /\ closedBy'[c] = "clear"

\* C8: clear leaves available empty with every previously idle Connection
\* destroyed, inUse and the callers' connections as they were, and
\* size() = |inUse|; clear applied to the result of clear changes nothing.
C8_Clear ==
    [][/\ ClearCloses =>
            /\ available' = <<>>
            /\ \A c \in Range(available) : closedBy'[c] = "clear"
            /\ \A c \in Conns \ Range(available) : closedBy'[c] = closedBy[c]
            /\ inUse' = inUse
            /\ held' = held
            /\ size' = Cardinality(inUse)
       /\ ClearQueue(ClearQueue(available)) = ClearQueue(available)
       /\ ClearClosed(ClearQueue(available), ClearClosed(available, closedBy))
             = ClearClosed(available, closedBy)]_vars

\* clear has just destroyed two idle Connections while one is checked out.
C8_Witness ==
    /\ available = <<>>
    /\ Cardinality({c \in Conns : closedBy[c] = "clear"}) >= 2
    /\ inUse # {}

\* The pool is full and every Connection is checked out.
Exhausted == size = maxsize /\ available = <<>>

\* An acquire called on an exhausted pool invokes no connector and suspends.
NoConnectWhenExhausted ==
    \A t \in Tasks :
        (Calls(t) /\ Exhausted) =>
            /\ pc'[t] = "wait"
            /\ nextId' = nextId
            /\ inUse' = inUse

\* A suspended acquire leaves the queue only by taking an idle Connection,
\* and an exhausted pool gets an idle Connection only from a release.
SuspendedUntilRelease ==
    /\ \A t \in Tasks :
          (pc[t] = "wait" /\ pc'[t] # "wait") => available # <<>>
    /\ (Exhausted /\ available' # <<>>) => \E u \in Tasks : Releases(u)

\* C9 as stated: an acquire on an exhausted pool invokes no connector and
\* stays suspended until a release; a healthy Connection that a release has
\* put back while acquires are suspended is returned by a suspended acquire.
C9_Backpressure ==
    [][/\ NoConnectWhenExhausted
       /\ SuspendedUntilRelease
       /\ \A t \in Tasks :
            (/\ Returns(t)
             /\ held'[t] \in Range(available) \cap released
             /\ \E w \in Tasks : pc[w] = "wait")
                => pc[t] = "wait"]_vars

\* C9 as amended: an acquire on an exhausted pool invokes no connector and
\* stays suspended until a release; a release of a healthy Connection
\* appends it to available and wakes the longest-suspended acquire; a woken
\* acquire that resumes returns the head of available if one is there and
\* healthy, and suspends again, invoking no connector, if available is empty.
C9_BackpressureWake ==
    [][/\ NoConnectWhenExhausted
       /\ SuspendedUntilRelease
       /\ \A u \in Tasks :
            (Releases(u) /\ held[u] \notin stale /\ getters # <<>>) =>
                /\ Head(getters) \in woken'
                /\ getters' = Tail(getters)
                /\ available' = Append(available, held[u])
       /\ \A t \in Tasks :
            (pc[t] = "wait" /\ t \in woken /\ t \notin woken') =>
                IF available = <<>>
                THEN /\ pc'[t] = "wait"
                     /\ getters' = Append(getters, t)
                     /\ nextId' = nextId
                     /\ inUse' = inUse
                ELSE (Head(available) \notin stale) =>
                        /\ pc'[t] = "held"
                        /\ held'[t] = Head(available)
                        /\ available' = Tail(available)
                        /\ nextId' = nextId]_vars

\* The pool is full, a release has put a healthy Connection back and the
\* acquire it woke has not run yet.
C9_Witness ==
    /\ size = maxsize
    /\ available # <<>>
    /\ Head(available) \in released
    /\ Head(available) \notin stale
    /\ \E t \in woken : pc[t] = "wait"

\* C10 as stated: a Connection that acquire has handed to a caller is
\* destroyed only by a release that finds it stale or by clear.
C10_IssuedClosedTwoWays ==
    \A c \in issued : closedBy[c] \in {"none", "release", "clear"}

\* C10 as amended: a Connection that acquire has handed to a caller is
\* never destroyed while it is checked out, and is destroyed only by the
\* release of its holder that finds it stale, by clear while it is idle, or
\* by a later acquire that takes it from available and finds it stale.
C10_IssuedClosedThreeWays ==
    [][\A c \in issued :
          /\ c \in inUse => closedBy[c] = "none"
          /\ (closedBy[c] = "none" /\ closedBy'[c] # "none") =>
                \/ /\ closedBy'[c] = "release"
                   /\ c \in inUse /\ c \in stale
                   /\ \E t \in Tasks : Releases(t) /\ held[t] = c
                \/ /\ closedBy'[c] = "clear"
                   /\ c \in Range(available)
                   /\ available' = <<>>
                \/ /\ closedBy'[c] = "acquire"
                   /\ c \in Range(available) /\ c \in stale
                   /\ c \notin inUse]_vars

\* A Connection that was handed out and released went stale while idle and
\* the next acquire destroyed it.
C10_Witness ==
    \E c \in issued : c \in released /\ closedBy[c] = "acquire"

\* C11: in every state no Connection is both in available and in inUse,
\* and no Connection occurs twice in available.
C11_Disjoint ==
    /\ Range(available) \cap inUse = {}
    /\ \A i, j \in 1..Len(available) :
          available[i] = available[j] => i = j

\* Released and checked-out connections exist side by side, the pool full.
C11_Witness ==
    /\ Range(available) \cap released # {}
    /\ inUse \cap released # {}
    /\ size = maxsize

\* The transports the connector has produced so far.
Produced == 1..(nextId - 1)

\* C12: every transport the connector has produced is in exactly one of
\* available, inUse and destroyed; a transport discarded at the re-check was
\* never handed out, and the committed size stays within maxSize.
C12_NoLostTransport ==
    /\ \A c \in Produced :
          /\ c \in Range(available) \/ c \in inUse \/ closedBy[c] # "none"
          /\ ~(c \in Range(available) /\ c \in inUse)
          /\ closedBy[c] # "none" => (c \notin Range(available) /\ c \notin inUse)
          /\ closedBy[c] = "surplus" => (c \notin issued /\ c \notin released)
    /\ \A c \in Conns \ Produced :
          c \notin Range(available) /\ c \notin inUse /\ closedBy[c] = "none"
    /\ size <= maxsize

\* A transport lost the race for the last slot and was closed, while the
\* transports that won are idle and checked out.
C12_Witness ==
    /\ \E c \in Produced : closedBy[c] = "surplus"
    /\ available # <<>>
    /\ inUse # {}

\* Task t's acquire invokes the connector in this step.
Invokes(t) ==
    /\ pc'[t] \in Connecting
    /\ pc[t] \notin Connecting \/ WarmDelivers(t) \/ ReplDelivers(t)

\* C13: the connector is invoked only when size() < maxSize at the moment of
\* the invocation (the pool state in which the call suspends); with
\* maxSize = 0 no connect is ever in flight and no transport is produced.
C13_NoConnectAtBound ==
    [][/\ \A t \in Tasks : Invokes(t) => size' < maxsize
       /\ maxsize = 0 =>
            /\ nextId = 1
            /\ \A t \in Tasks : pc[t] \notin Connecting]_vars

\* With maxSize = 0 an acquire has gone straight to waiting on the queue.
C13_Witness ==
    /\ maxsize = 0
    /\ \E t \in Tasks : pc[t] = "wait"

\* C14: release of a checked-out Connection whose read side is at
\* end-of-stream or in error removes it from inUse, destroys it and does not
\* put it in available: size() drops by one, nobody is woken, and no other
\* Connection changes place.
C14_ReleaseStale ==
    [][\A t \in Tasks :
          (Releases(t) /\ held[t] \in stale) =>
              /\ held[t] \in inUse
              /\ inUse' = inUse \ {held[t]}
              /\ available' = available
              /\ closedBy' = [closedBy EXCEPT ![held[t]] = "release"]
              /\ size' = size - 1
              /\ getters' = getters
              /\ woken' = woken]_vars

\* A release has destroyed a stale Connection while another one is idle.
C14_Witness ==
    /\ \E c \in Conns : closedBy[c] = "release"
    /\ available # <<>>

Max(a, b) == IF a > b THEN a ELSE b

\* The number of connector invocations of a solitary acquire.
SoloInvocations == Min(Max(1, minsize), maxsize)

\* C15: an acquire that runs alone on an empty pool with a connector that
\* always succeeds has invoked the connector exactly
\* min(max(1, minSize), maxSize) times when it returns, never more while it
\* runs, and not at all when maxSize = 0.
C15_SolitaryInvocations ==
    [][/\ \A t \in Tasks :
            (issued = {} /\ Returns(t)) =>
                /\ nextId' - 1 = SoloInvocations
                /\ \A u \in Tasks : pc'[u] \notin Connecting
       /\ \A t \in Tasks :
            (issued = {} /\ pc[t] \in Connecting) => nextId <= SoloInvocations
       /\ (issued = {} /\ maxsize = 0) => nextId = 1]_vars

\* The solitary acquire of a pool with minSize = 1, maxSize = 2 has just
\* returned the one Connection it created.
C15_Witness ==
    /\ minsize = 1
    /\ maxsize = 2
    /\ issued = {1}
    /\ nextId = 2
    /\ inUse = {1}
    /\ \A u \in Tasks : pc[u] \in {"idle", "held"}

\* C16: acquire takes the head of available, hands out a fresh Connection
\* of its warm-up only when no older one is idle, and a replacement (which
\* is never idle) leaves the queue as it is; every step
\* leaves available as a suffix of what it was, followed by at most one newly
\* inserted Connection at the tail: idle Connections leave in the order in
\* which they were inserted.
C16_Fifo ==
    [][/\ \A t \in Tasks :
            Returns(t) =>
                IF held'[t] \in Range(available)
                THEN /\ held'[t] = Head(available)
                     /\ \E i \in 1..Len(available') + 1 :
                           SubSeq(available', 1, i - 1) = Tail(available)
                ELSE /\ held'[t] = nextId
                     /\ available' = available
                     /\ pc[t] = "warm_connect" => available = <<>>
       /\ \E k \in 0..Len(available) :
            \/ available' = SubSeq(available, k + 1, Len(available))
            \/ \E c \in Conns \ Range(available) :
                  available' =
                      Append(SubSeq(available, k + 1, Len(available)), c)
       /\ \A u \in Tasks :
            (Releases(u) /\ held[u] \notin stale) =>
                available' = Append(available, held[u])]_vars

\* Two released Connections are idle, queued in the order of their
\* release, which is not the order of their creation.
C16_Witness ==
    /\ Len(available) = 2
    /\ Range(available) \subseteq released
    /\ available[1] > available[2]

\* C19: a Connection that acquire returns was taken from available and
\* passed the liveness check in that step, or was produced by the connector
\* in that step; a destroyed Connection stays destroyed and is never in
\* available, in inUse or in a caller's hands.
C19_NeverDead ==
    [][/\ \A t \in Tasks :
            Returns(t) =>
                /\ closedBy'[held'[t]] = "none"
                /\ \/ /\ held'[t] \in Range(available)
                      /\ held'[t] \notin stale
                      /\ closedBy[held'[t]] = "none"
                   \/ /\ held'[t] = nextId
                      /\ nextId' = nextId + 1
       /\ \A c \in Conns :
            closedBy[c] # "none" =>
                /\ closedBy'[c] = closedBy[c]
                /\ c \notin Range(available)
                /\ c \notin inUse
                /\ c \notin Range(available')
                /\ c \notin inUse'
                /\ \A t \in Tasks : held'[t] # c]_vars

\* One Connection has been destroyed and a caller holds one that went
\* through the queue and its liveness check.
C19_Witness ==
    /\ \E c \in Conns : closedBy[c] \in {"acquire", "release", "clear"}
    /\ \E t \in Tasks : pc[t] = "held" /\ held[t] \in released

\* Task t's acquire is abandoned in this step.
Abandons(t) == pc[t] \in Connecting \cup {"wait"} /\ pc'[t] = "cancelled"

ProgressPending ==
    \/ inUse # {}
    \/ \E u \in Tasks : pc[u] \in Connecting
    \/ woken # {}

\* C18: with maxSize >= 1 and a connector that always succeeds, an acquire
\* is never left suspended on the idle queue in a state in which every
\* Connection has been released and nothing is in flight or woken: from such
\* a state it could not return although every release has happened.
C18_NoStrandedWaiter ==
    maxsize >= 1 =>
        \A t \in Tasks : (pc[t] = "wait" /\ t \notin woken) => ProgressPending

\* C20: release called with a Connection that is not in inUse ends in an
\* error and leaves available, inUse, size() and every Connection's open or
\* closed state as they were, waking nobody.
C20_ReleaseMisuse ==
    [][\A t \in Tasks :
          (pc[t] = "idle" /\ pc'[t] \in {"keyerror", "released"}) =>
              /\ pc'[t] = "keyerror"
              /\ available' = available
              /\ inUse' = inUse
              /\ size' = size
              /\ closedBy' = closedBy
              /\ stale' = stale
              /\ getters' = getters
              /\ woken' = woken]_vars

\* A release of a Connection that is idle in the pool (a second release)
\* has just failed, while another Connection is checked out.
C20_Witness ==
    /\ \E t \in Tasks : pc[t] = "keyerror"
    /\ Range(available) \cap released # {}
    /\ inUse # {}

====
